---- MODULE Spec2Model ----
(***************************************************************************)
(* Laptop Galleria (src/app.py): the product table, the order table, the   *)
(* session carts and the request handlers that read and write them.        *)
(*                                                                         *)
(* A product id is its row number in the product table (an autoincrement   *)
(* primary key; rows are never deleted).  A cart is a function from the    *)
(* product ids it holds to quantities; the code keys the dict by           *)
(* str(product_id) and reads the key back with int(pid), which on the      *)
(* decimal rendering of an integer gives the same integer.                 *)
(***************************************************************************)
EXTENDS Integers, Sequences, FiniteSets, TLC

VARIABLES
    products,   \* Product rows, by id: [name, slug, price_cents, image_filename, stock]
    orders,     \* Order rows, by id: [customer_name, customer_address, items, total_cents]
    carts,      \* session["cart"] of every session
    admin,      \* session["admin"] of every session
    files,      \* names of the files in the uploads folder
    uuids,      \* number of uuid4 names drawn so far
    ck,         \* the checkout request each session has in flight, if any
    resp,       \* the response to the last request handled
    stock0,     \* history: the stock of every product at start-up
    image       \* the picture save_and_resize_image has in hand, and what it made of it

vars == <<products, orders, carts, admin, files, uuids, ck, resp, stock0, image>>

-----------------------------------------------------------------------------
(* Bounds of the model *)

MaxOrders == 1        \* orders placed in one run
MaxCartQty == 2       \* largest quantity a cart entry accumulates
MaxUploads == 1       \* image files stored in one run
MaxProducts == 3      \* rows of the product table

Sessions == {"s1", "s2"}
Shoppers == {"s1"}    \* the sessions that act when requests are handled one at a time

NoFile == 0           \* image_filename = None
NoField == "<none>"   \* a form field the request does not carry

(* Form values the model's requests carry *)
QtyForms == {NoField, "-1", "0", "1", "2", "x"}
PriceForms == {NoField, "abc", "2.50", "-1.00"}
StockForms == {NoField, "", "-1", "1"}
NameForms == {NoField, "Tablet"}
SlugForms == {"dell-latitude", "tablet"}
UploadForms == {NoField, "pic.png", "pic.gif", "png"}
PasswordForms == {"admin123", "guess"}
Customers == {"Ana"}
Addresses == {"Cebu"}
ProductIdArgs == 1 .. 3     \* the <int:product_id> of a URL

-----------------------------------------------------------------------------
(* Conversions of form values *)

ADMIN_PASS == "admin123"

\* int(s) on the form values above: [ok, val]; ok = FALSE is ValueError
ParseInt(s) ==
    CASE s = "-1" -> [ok |-> TRUE, val |-> -1]
      [] s = "0"  -> [ok |-> TRUE, val |-> 0]
      [] s = "1"  -> [ok |-> TRUE, val |-> 1]
      [] s = "2"  -> [ok |-> TRUE, val |-> 2]
      [] OTHER    -> [ok |-> FALSE, val |-> 0]

\* int(float(s) * 100) on the form values above: [ok, val]; ok = FALSE is ValueError
ParsePriceCents(s) ==
    CASE s = "2.50"  -> [ok |-> TRUE, val |-> 250]
      [] s = "-1.00" -> [ok |-> TRUE, val |-> -100]
      [] s = "0"     -> [ok |-> TRUE, val |-> 0]
      [] OTHER       -> [ok |-> FALSE, val |-> 0]

\* filename.rsplit(".", 1)[-1].lower() on the upload names above: the text after
\* the last dot, and of a name without a dot the whole name
Extension(filename) ==
    CASE filename = "pic.png" -> "png"
      [] filename = "pic.gif" -> "gif"
      [] OTHER -> filename

allowed_file(filename) == Extension(filename) \in {"jpg", "jpeg", "png", "webp"}

Max(a, b) == IF a >= b THEN a ELSE b

\* no picture in hand
NoImage == [pc |-> "none", width |-> 0, height |-> 0, new_width |-> 0, new_height |-> 0,
            left |-> 0, top |-> 0, right |-> 0, bottom |-> 0, out_w |-> 0, out_h |-> 0]


\* a cart entry accumulates no further below zero than one request takes it
MinCartQty == ParseInt("-1").val

-----------------------------------------------------------------------------
(* The record store *)

\* Product.query.get(pid) finds a row
ProductExists(prods, pid) == pid \in DOMAIN prods

\* two of the sample rows init_db seeds an empty table with
SeedProducts ==
    << [name |-> "Dell Latitude", slug |-> "dell-latitude", price_cents |-> 1800000,
        image_filename |-> NoFile, stock |-> 3],
       [name |-> "Gaming PC", slug |-> "gaming-pc", price_cents |-> 4500000,
        image_filename |-> NoFile, stock |-> 2] >>

\* a response: the handler, the session, the message flashed (or the page or error
\* returned), and what the message or page shows: a product, its stock, a total, item lines
NoResp == [op |-> "none", sess |-> "", flash |-> "", pid |-> 0, stock |-> 0, total |-> 0,
           items |-> <<>>]

Resp(op, s, flash) == [NoResp EXCEPT !.op = op, !.sess = s, !.flash = flash]

\* no checkout in flight; flash is the message the session's last checkout ended with
Idle(flash) == [pc |-> "idle", ord |-> <<>>, i |-> 0, seen |-> <<>>,
                items |-> <<>>, total |-> 0, name |-> "", address |-> "", flash |-> flash]

\* session.get("cart", {})
cart_get(s) == carts[s]

\* cart.get(key, 0)
CartQty(cart, pid) == IF pid \in DOMAIN cart THEN cart[pid] ELSE 0

\* cart[key] = qty
CartPut(cart, pid, qty) ==
    [k \in DOMAIN cart \cup {pid} |-> IF k = pid THEN qty ELSE cart[k]]

\* cart.pop(key, None)
CartPop(cart, pid) == [k \in DOMAIN cart \ {pid} |-> cart[k]]

\* the orders in which "for pid, qty in cart.items()" may visit a cart
Orderings(S) ==
    {f \in [1 .. Cardinality(S) -> S] : \A i, j \in DOMAIN f : f[i] = f[j] => i = j}

Init ==
    /\ products = SeedProducts
    /\ orders = <<>>
    /\ carts = [s \in Sessions |-> <<>>]
    /\ admin = [s \in Sessions |-> FALSE]
    /\ files = {}
    /\ uuids = 0
    /\ ck = [s \in Sessions |-> Idle("")]
    /\ resp = NoResp
    /\ stock0 = [p \in DOMAIN SeedProducts |-> SeedProducts[p].stock]
    /\ image = NoImage

-----------------------------------------------------------------------------
(* Shopper requests *)

\* the cart add_to_cart stores for an existing product with enough stock
AddedCart(cart, pid, qty) == CartPut(cart, pid, CartQty(cart, pid) + qty)

\* a check that also refuses a request for all the stock there is
add_refuses_all(p, qty) == p.stock <= qty

\* p.stock < qty
add_refuses(p, qty) == p.stock < qty

\* an add_to_cart that takes the units out of stock when it adds them
add_to_cart_reserving(s, pid, form) ==
    LET q == IF form = NoField THEN [ok |-> TRUE, val |-> 1] ELSE ParseInt(form) IN
    /\ ck[s].pc = "idle"
    /\ IF ~q.ok
         THEN /\ resp' = Resp("add_to_cart", s, "500")
              /\ UNCHANGED <<carts, products>>
         ELSE IF ~ProductExists(products, pid)
         THEN /\ resp' = Resp("add_to_cart", s, "404")
              /\ UNCHANGED <<carts, products>>
         ELSE IF add_refuses(products[pid], q.val)
         THEN /\ resp' = Resp("add_to_cart", s, "Not enough stock for that product.")
              /\ UNCHANGED <<carts, products>>
         ELSE /\ CartQty(cart_get(s), pid) + q.val \in MinCartQty .. MaxCartQty
              /\ carts' = [carts EXCEPT ![s] = AddedCart(cart_get(s), pid, q.val)]
              /\ products' = [products EXCEPT ![pid].stock = @ - q.val]
              /\ resp' = Resp("add_to_cart", s, "Added to cart")
    /\ UNCHANGED <<orders, admin, files, uuids, ck, stock0, image>>

\* an add_to_cart that looks the product up with get, not get_or_404, and tests
\* the stock only of a product it found
add_to_cart_unchecked(s, pid, form) ==
    LET q == IF form = NoField THEN [ok |-> TRUE, val |-> 1] ELSE ParseInt(form) IN
    /\ ck[s].pc = "idle"
    /\ IF ~q.ok
         THEN /\ resp' = Resp("add_to_cart", s, "500")
              /\ UNCHANGED carts
         ELSE IF ProductExists(products, pid) /\ add_refuses(products[pid], q.val)
         THEN /\ resp' = Resp("add_to_cart", s, "Not enough stock for that product.")
              /\ UNCHANGED carts
         ELSE /\ CartQty(cart_get(s), pid) + q.val \in MinCartQty .. MaxCartQty
              /\ carts' = [carts EXCEPT ![s] = AddedCart(cart_get(s), pid, q.val)]
              /\ resp' = Resp("add_to_cart", s, "Added to cart")
    /\ UNCHANGED <<products, orders, admin, files, uuids, ck, stock0, image>>

add_to_cart(s, pid, form) ==
    LET q == IF form = NoField THEN [ok |-> TRUE, val |-> 1] ELSE ParseInt(form) IN
    /\ ck[s].pc = "idle"
    /\ IF ~q.ok
         THEN /\ resp' = Resp("add_to_cart", s, "500")
              /\ UNCHANGED carts
         ELSE IF ~ProductExists(products, pid)
         THEN /\ resp' = Resp("add_to_cart", s, "404")
              /\ UNCHANGED carts
         ELSE IF add_refuses(products[pid], q.val)
         THEN /\ resp' = Resp("add_to_cart", s, "Not enough stock for that product.")
              /\ UNCHANGED carts
         ELSE /\ CartQty(cart_get(s), pid) + q.val \in MinCartQty .. MaxCartQty
              /\ carts' = [carts EXCEPT ![s] = AddedCart(cart_get(s), pid, q.val)]
              /\ resp' = Resp("add_to_cart", s, "Added to cart")
    /\ UNCHANGED <<products, orders, admin, files, uuids, ck, stock0, image>>

remove_from_cart(s, pid) ==
    /\ ck[s].pc = "idle"
    /\ carts' = [carts EXCEPT ![s] = CartPop(cart_get(s), pid)]
    /\ resp' = Resp("remove_from_cart", s, "Removed from cart")
    /\ UNCHANGED <<products, orders, admin, files, uuids, ck, stock0, image>>

\* a total that counts every entry, its product in the table or not
cart_total_cents_all(cart, ord, prods) ==
    LET RECURSIVE loop(_, _)
        loop(i, total) ==
            IF i > Len(ord) THEN total
            ELSE loop(i + 1, total + (IF ProductExists(prods, ord[i])
                                      THEN prods[ord[i]].price_cents
                                      ELSE prods[1].price_cents) * cart[ord[i]])
    IN loop(1, 0)

\* cart_total_cents(cart), the dict visited in the order ord
cart_total_cents(cart, ord, prods) ==
    LET RECURSIVE loop(_, _)
        loop(i, total) ==
            IF i > Len(ord) THEN total
            ELSE IF ProductExists(prods, ord[i])
                 THEN loop(i + 1, total + prods[ord[i]].price_cents * cart[ord[i]])
                 ELSE loop(i + 1, total)
    IN loop(1, 0)

\* the items list view_cart builds: one [pid, qty, total] per entry whose product exists
view_items(cart, ord, prods) ==
    LET RECURSIVE loop(_, _)
        loop(i, items) ==
            IF i > Len(ord) THEN items
            ELSE IF ProductExists(prods, ord[i])
                 THEN loop(i + 1, Append(items,
                          [pid |-> ord[i], qty |-> cart[ord[i]],
                           total |-> prods[ord[i]].price_cents * cart[ord[i]]]))
                 ELSE loop(i + 1, items)
    IN loop(1, <<>>)

\* view_cart: the page shows the item lines and the grand total
view_cart(s) ==
    /\ ck[s].pc = "idle"
    /\ \E ord \in Orderings(DOMAIN cart_get(s)) :
          resp' = [Resp("view_cart", s, "cart.html")
                      EXCEPT !.items = view_items(cart_get(s), ord, products),
                             !.total = cart_total_cents(cart_get(s), ord, products)]
    /\ UNCHANGED <<products, orders, carts, admin, files, uuids, ck, stock0, image>>

-----------------------------------------------------------------------------
(* Checkout *)

\* the line f"{p.name} x{qty} @ P{p.price():.2f}" of the items summary, by its parts
ItemLine(p, qty) == [name |-> p.name, qty |-> qty, price_cents |-> p.price_cents]

\* Order(customer_name=name, customer_address=address, items=..., total_cents=total)
NewOrder(name, address, items, total) ==
    [customer_name |-> name, customer_address |-> address,
     items |-> items, total_cents |-> total]

\* a test that asks only whether the product has any stock at all
checkout_refuses_sold_out(p, qty) == p.stock < 1

\* p.stock < qty in the validation loop
checkout_refuses(p, qty) == p.stock < qty

\* a validation loop whose total adds the unit price once per line
ValidateLoopUnitTotal(cart, ord, prods) ==
    LET RECURSIVE loop(_, _, _)
        loop(i, items, total) ==
            IF i > Len(ord)
            THEN [flash |-> "", pid |-> 0, stock |-> 0, items |-> items, total |-> total]
            ELSE IF ~ProductExists(prods, ord[i])
            THEN [flash |-> "Product missing", pid |-> ord[i], stock |-> 0,
                  items |-> items, total |-> total]
            ELSE IF prods[ord[i]].stock < cart[ord[i]]
            THEN [flash |-> "Not enough stock", pid |-> ord[i],
                  stock |-> prods[ord[i]].stock, items |-> items, total |-> total]
            ELSE loop(i + 1,
                      Append(items, ItemLine(prods[ord[i]], cart[ord[i]])),
                      total + prods[ord[i]].price_cents)
    IN loop(1, <<>>, 0)

\* a validation loop that passes over an entry whose product is gone, as pricing does
ValidateLoopSkipsMissing(cart, ord, prods) ==
    LET RECURSIVE loop(_, _, _)
        loop(i, items, total) ==
            IF i > Len(ord)
            THEN [flash |-> "", pid |-> 0, stock |-> 0, items |-> items, total |-> total]
            ELSE IF ~ProductExists(prods, ord[i])
            THEN loop(i + 1, items, total)
            ELSE IF checkout_refuses(prods[ord[i]], cart[ord[i]])
            THEN [flash |-> "Not enough stock", pid |-> ord[i],
                  stock |-> prods[ord[i]].stock, items |-> items, total |-> total]
            ELSE loop(i + 1,
                      Append(items, ItemLine(prods[ord[i]], cart[ord[i]])),
                      total + prods[ord[i]].price_cents * cart[ord[i]])
    IN loop(1, <<>>, 0)

\* the validation loop of checkout over the rows prods, the dict visited in the
\* order ord: the flash message it ends with ("" when every entry passes), the
\* product and stock it names, and the summary and total built so far
ValidateLoop(cart, ord, prods) ==
    LET RECURSIVE loop(_, _, _)
        loop(i, items, total) ==
            IF i > Len(ord)
            THEN [flash |-> "", pid |-> 0, stock |-> 0, items |-> items, total |-> total]
            ELSE IF ~ProductExists(prods, ord[i])
            THEN [flash |-> "Product missing", pid |-> ord[i], stock |-> 0,
                  items |-> items, total |-> total]
            ELSE IF checkout_refuses(prods[ord[i]], cart[ord[i]])
            THEN [flash |-> "Not enough stock", pid |-> ord[i],
                  stock |-> prods[ord[i]].stock, items |-> items, total |-> total]
            ELSE loop(i + 1,
                      Append(items, ItemLine(prods[ord[i]], cart[ord[i]])),
                      total + prods[ord[i]].price_cents * cart[ord[i]])
    IN loop(1, <<>>, 0)

\* a decrement that takes one unit whatever the quantity
DecrementedByOne(stock, qty) == Max(stock - 1, 0)

\* p.stock = max(p.stock - qty, 0)
Decremented(stock, qty) == Max(stock - qty, 0)

\* the decrement loop of checkout: every product of the cart, once
DecrementLoop(cart, prods) ==
    [p \in DOMAIN prods |->
        IF p \in DOMAIN cart
        THEN [prods[p] EXCEPT !.stock = Decremented(prods[p].stock, cart[p])]
        ELSE prods[p]]

\* an insert that writes over the newest order
AddOrderOverwrite(os, o) == IF os = <<>> THEN <<o>> ELSE [os EXCEPT ![Len(os)] = o]

\* db.session.add(order)
AddOrder(os, o) == Append(os, o)

\* a checkout that decrements each product as soon as its entry passes
CheckoutResultOnePass(cart, ord, name, address, prods, os) ==
    LET v == ValidateLoop(cart, ord, prods)
        passed == {ord[k] : k \in 1 .. Len(v.items)}
    IN
    IF DOMAIN cart = {}
    THEN [flash |-> "Cart is empty", pid |-> 0, stock |-> 0,
          products |-> prods, orders |-> os, cart |-> cart]
    ELSE IF v.flash # ""
    THEN [flash |-> v.flash, pid |-> v.pid, stock |-> v.stock,
          products |-> DecrementLoop([k \in passed |-> cart[k]], prods),
          orders |-> os, cart |-> cart]
    ELSE [flash |-> "ok", pid |-> 0, stock |-> 0,
          products |-> DecrementLoop(cart, prods),
          orders |-> AddOrder(os, NewOrder(name, address, v.items, v.total)),
          cart |-> <<>>]

\* a checkout that takes the entry it refuses out of the cart
CheckoutResultDropsEntry(cart, ord, name, address, prods, os) ==
    LET v == ValidateLoop(cart, ord, prods) IN
    IF DOMAIN cart = {}
    THEN [flash |-> "Cart is empty", pid |-> 0, stock |-> 0,
          products |-> prods, orders |-> os, cart |-> cart]
    ELSE IF v.flash # ""
    THEN [flash |-> v.flash, pid |-> v.pid, stock |-> v.stock,
          products |-> prods, orders |-> os, cart |-> CartPop(cart, v.pid)]
    ELSE [flash |-> "ok", pid |-> 0, stock |-> 0,
          products |-> DecrementLoop(cart, prods),
          orders |-> AddOrder(os, NewOrder(name, address, v.items, v.total)),
          cart |-> <<>>]

\* a checkout without the test for an empty cart
CheckoutResultNoEmptyTest(cart, ord, name, address, prods, os) ==
    LET v == ValidateLoop(cart, ord, prods) IN
    IF v.flash # ""
    THEN [flash |-> v.flash, pid |-> v.pid, stock |-> v.stock,
          products |-> prods, orders |-> os, cart |-> cart]
    ELSE [flash |-> "ok", pid |-> 0, stock |-> 0,
          products |-> DecrementLoop(cart, prods),
          orders |-> AddOrder(os, NewOrder(name, address, v.items, v.total)),
          cart |-> <<>>]

\* what one checkout request does to the store when no other request runs
\* between its steps: [flash, pid, stock, products, orders, cart]
CheckoutResult(cart, ord, name, address, prods, os) ==
    LET v == ValidateLoop(cart, ord, prods) IN
    IF DOMAIN cart = {}
    THEN [flash |-> "Cart is empty", pid |-> 0, stock |-> 0,
          products |-> prods, orders |-> os, cart |-> cart]
    ELSE IF v.flash # ""
    THEN [flash |-> v.flash, pid |-> v.pid, stock |-> v.stock,
          products |-> prods, orders |-> os, cart |-> cart]
    ELSE [flash |-> "ok", pid |-> 0, stock |-> 0,
          products |-> DecrementLoop(cart, prods),
          orders |-> AddOrder(os, NewOrder(name, address, v.items, v.total)),
          cart |-> <<>>]

\* checkout, handled with no other request in between
checkout(s, name, address) ==
    /\ ck[s].pc = "idle"
    /\ \E ord \in Orderings(DOMAIN cart_get(s)) :
         LET r == CheckoutResult(cart_get(s), ord, name, address, products, orders) IN
         /\ products' = r.products
         /\ orders' = r.orders
         /\ carts' = [carts EXCEPT ![s] = r.cart]
         /\ resp' = [Resp("checkout", s, r.flash) EXCEPT !.pid = r.pid, !.stock = r.stock]
    /\ UNCHANGED <<admin, files, uuids, ck, stock0, image>>

-----------------------------------------------------------------------------
(* Admin requests *)

admin_login(s, pw) ==
    /\ IF pw = ADMIN_PASS
         THEN /\ admin' = [admin EXCEPT ![s] = TRUE]
              /\ resp' = Resp("admin_login", s, "Logged in as admin")
         ELSE /\ resp' = Resp("admin_login", s, "Wrong password")
              /\ UNCHANGED admin
    /\ UNCHANGED <<products, orders, carts, files, uuids, ck, stock0, image>>

admin_logout(s) ==
    /\ admin' = [admin EXCEPT ![s] = FALSE]
    /\ resp' = Resp("admin_logout", s, "Logged out")
    /\ UNCHANGED <<products, orders, carts, files, uuids, ck, stock0, image>>

\* save_and_resize_image(img): the name returned (NoFile for None) and the
\* uploads folder afterwards
save_and_resize_image(filename, fs, n) ==
    IF ~allowed_file(filename)
    THEN [name |-> NoFile, files |-> fs, uuids |-> n]
    ELSE [name |-> n + 1, files |-> fs \cup {n + 1}, uuids |-> n + 1]

\* output_size=(600,400)
target_w == 600
target_h == 400

\* the sizes of the pictures uploaded
ImageWidths == {1, 2, 3, 291, 300, 600, 601, 900, 1200, 1959}
ImageHeights == {1, 2, 3, 194, 200, 400, 401, 600, 800, 1306}

\* the operands <<a, b, c>>, among the sizes above, for which the double a * (b / c)
\* falls short of the whole number a * b / c, b / c having been rounded down to a
\* double: 194 * (600 / 291) = 399.99999999999994
RoundedDown == {<<194, 600, 291>>, <<291, 400, 194>>, <<1306, 600, 1959>>}

\* int(a * (b / c)) in doubles, on the sizes above: the quotient truncated, and
\* one less for the operands whose product falls short of a whole number
IntOfScaled(a, b, c) ==
    IF <<a, b, c>> \in RoundedDown THEN (a * b) \div c - 1 ELSE (a * b) \div c

\* im_ratio > target_ratio: the doubles width / height and target_w / target_h
\* compare as the fractions do on the sizes above
wider(width, height) == width * target_h > target_w * height

\* lines 114-121: the size the picture is resized to
cover_resize(width, height) ==
    IF wider(width, height)
    THEN [new_width |-> IntOfScaled(width, target_h, height), new_height |-> target_h]
    ELSE [new_width |-> target_w, new_height |-> IntOfScaled(height, target_w, width)]

\* lines 126-129: the crop box, its coordinates in half pixels (left is
\* (new_width - target_w) / 2, which the double holds exactly)
crop_box(new_width, new_height) ==
    [left |-> new_width - target_w,
     top |-> new_height - target_h,
     right |-> (new_width - target_w) + 2 * target_w,
     bottom |-> (new_height - target_h) + 2 * target_h]

\* round(x) of the half-pixel count h = 2x: to the nearest whole number, a half
\* to the even one
round(h) ==
    IF h % 2 = 0 THEN h \div 2
    ELSE IF (h \div 2) % 2 = 0 THEN h \div 2 ELSE h \div 2 + 1

\* the size of im_resized.crop(box): Image.crop rounds the four coordinates
crop_size(box) ==
    [out_w |-> round(box.right) - round(box.left),
     out_h |-> round(box.bottom) - round(box.top)]

\* save_and_resize_image from Image.open to crop, of the picture in hand
resize_and_crop ==
    LET r == cover_resize(image.width, image.height)
        box == crop_box(r.new_width, r.new_height)
        out == crop_size(box)
    IN
    /\ image.pc = "opened"
    /\ image' = [image EXCEPT !.pc = "cropped",
                              !.new_width = r.new_width, !.new_height = r.new_height,
                              !.left = box.left, !.top = box.top,
                              !.right = box.right, !.bottom = box.bottom,
                              !.out_w = out.out_w, !.out_h = out.out_h]
    /\ UNCHANGED <<products, orders, carts, admin, files, uuids, ck, resp, stock0>>

\* the commit of admin_add fails on a NULL name or a slug already taken
InsertFails(prods, name, slug) ==
    \/ name = NoField
    \/ \E p \in DOMAIN prods : prods[p].slug = slug

admin_add(s, name, slug, priceForm, stockForm, upload) ==
    LET price == ParsePriceCents(IF priceForm \in {NoField, ""} THEN "0" ELSE priceForm)
        stock == ParseInt(IF stockForm \in {NoField, ""} THEN "0" ELSE stockForm)
        img == IF upload = NoField
               THEN [name |-> NoFile, files |-> files, uuids |-> uuids]
               ELSE save_and_resize_image(upload, files, uuids)
    IN
    /\ IF ~admin[s]
         THEN /\ resp' = Resp("admin_add", s, "redirect")
              /\ UNCHANGED <<products, files, uuids>>
         ELSE IF ~price.ok \/ ~stock.ok
         THEN /\ resp' = Resp("admin_add", s, "500")
              /\ UNCHANGED <<products, files, uuids>>
         ELSE /\ img.uuids <= MaxUploads
              /\ files' = img.files
              /\ uuids' = img.uuids
              /\ IF InsertFails(products, name, slug)
                   THEN /\ resp' = Resp("admin_add", s, "Error creating product")
                        /\ UNCHANGED products
                   ELSE /\ Len(products) < MaxProducts
                        /\ products' = Append(products,
                               [name |-> name, slug |-> slug, price_cents |-> price.val,
                                image_filename |-> img.name, stock |-> stock.val])
                        /\ resp' = Resp("admin_add", s, "Product created")
    /\ UNCHANGED <<orders, carts, admin, ck, stock0, image>>

\* a try block that passes over a field it cannot parse and keeps the other
EditedRowLenient(p, priceForm, stockForm) ==
    LET price == ParsePriceCents(priceForm)
        stock == ParseInt(stockForm)
        p1 == IF priceForm \notin {NoField, ""} /\ price.ok
              THEN [p EXCEPT !.price_cents = price.val] ELSE p
        p2 == IF stockForm # NoField /\ stock.ok THEN [p1 EXCEPT !.stock = stock.val] ELSE p1
    IN [ok |-> TRUE, row |-> p2]

\* the try block of admin_edit: the row as edited, or ValueError
EditedRow(p, priceForm, stockForm) ==
    LET price == ParsePriceCents(priceForm)
        stock == ParseInt(stockForm)
        p1 == IF priceForm \notin {NoField, ""}
              THEN [p EXCEPT !.price_cents = price.val] ELSE p
        p2 == IF stockForm # NoField THEN [p1 EXCEPT !.stock = stock.val] ELSE p1
    IN [ok |-> /\ (priceForm \notin {NoField, ""} => price.ok)
               /\ (stockForm # NoField => stock.ok),
        row |-> p2]

\* an admin_edit without the test of the session's admin flag
admin_edit_unguarded(s, pid, priceForm, stockForm, upload) ==
    /\ IF ~ProductExists(products, pid)
         THEN /\ resp' = Resp("admin_edit", s, "404")
              /\ UNCHANGED <<products, files, uuids>>
         ELSE LET e == EditedRow(products[pid], priceForm, stockForm)
                  img == IF upload = NoField
                         THEN [name |-> NoFile, files |-> files, uuids |-> uuids]
                         ELSE save_and_resize_image(upload, files, uuids)
              IN IF ~e.ok
                 THEN /\ resp' = Resp("admin_edit", s, "Invalid price or stock")
                      /\ UNCHANGED <<products, files, uuids>>
                 ELSE /\ img.uuids <= MaxUploads
                      /\ uuids' = img.uuids
                      /\ IF img.name # NoFile
                           THEN /\ files' = img.files \ {e.row.image_filename}
                                /\ products' = [products EXCEPT ![pid] =
                                       [e.row EXCEPT !.image_filename = img.name]]
                           ELSE /\ files' = img.files
                                /\ products' = [products EXCEPT ![pid] = e.row]
                      /\ resp' = Resp("admin_edit", s, "Product updated")
    /\ UNCHANGED <<orders, carts, admin, ck, stock0, image>>

admin_edit(s, pid, priceForm, stockForm, upload) ==
    /\ IF ~admin[s]
         THEN /\ resp' = Resp("admin_edit", s, "redirect")
              /\ UNCHANGED <<products, files, uuids>>
         ELSE IF ~ProductExists(products, pid)
         THEN /\ resp' = Resp("admin_edit", s, "404")
              /\ UNCHANGED <<products, files, uuids>>
         ELSE LET e == EditedRow(products[pid], priceForm, stockForm)
                  img == IF upload = NoField
                         THEN [name |-> NoFile, files |-> files, uuids |-> uuids]
                         ELSE save_and_resize_image(upload, files, uuids)
              IN IF ~e.ok
                 THEN /\ resp' = Resp("admin_edit", s, "Invalid price or stock")
                      /\ UNCHANGED <<products, files, uuids>>
                 ELSE /\ img.uuids <= MaxUploads
                      /\ uuids' = img.uuids
                      /\ IF img.name # NoFile
                           THEN /\ files' = img.files \ {e.row.image_filename}
                                /\ products' = [products EXCEPT ![pid] =
                                       [e.row EXCEPT !.image_filename = img.name]]
                           ELSE /\ files' = img.files
                                /\ products' = [products EXCEPT ![pid] = e.row]
                      /\ resp' = Resp("admin_edit", s, "Product updated")
    /\ UNCHANGED <<orders, carts, admin, ck, stock0, image>>

\* Order.query.order_by(Order.created_at.desc()).all(): the newest order first
orders_listing(os) == [k \in 1 .. Len(os) |-> os[Len(os) + 1 - k]]

\* orders_admin: the page lists the orders
orders_admin(s) ==
    /\ IF ~admin[s]
         THEN resp' = Resp("orders_admin", s, "redirect")
         ELSE resp' = [Resp("orders_admin", s, "orders_admin.html")
                          EXCEPT !.items = orders_listing(orders)]
    /\ UNCHANGED <<products, orders, carts, admin, files, uuids, ck, stock0, image>>

-----------------------------------------------------------------------------------------------------------------------------------------------------
(* Requests handled one at a time: the shop floor *)

Next ==
    \/ \E s \in Shoppers, pid \in ProductIdArgs, form \in QtyForms : add_to_cart(s, pid, form)
    \/ \E s \in Shoppers, pid \in ProductIdArgs : remove_from_cart(s, pid)
    \/ \E s \in Shoppers : view_cart(s)
    \/ \E s \in Shoppers, name \in Customers, address \in Addresses :
          checkout(s, name, address) /\ Len(orders') <= MaxOrders

Spec == Init /\ [][Next]_vars

-----------------------------------------------------------------------------
(* Requests handled one at a time: the shop floor with the admin at work,   *)
(* a shopper who buys the first product one unit at a time, and room for   *)
(* one order more, so that an order is followed by a price change and      *)
(* another order                                                           *)

AdminQtyForms == {"1"}
AdminCartArgs == {1}
AdminEditArgs == {1, 3}
AdminAddPriceForms == {"abc", "2.50"}
AdminAddStockForms == {"-1", "1"}
AdminEditPriceForms == {NoField, "abc", "2.50"}
AdminEditStockForms == {NoField, "", "-1", "1"}
AdminUploadForms == {NoField}

NextAdmin ==
    \/ \E s \in Shoppers, pid \in AdminCartArgs, form \in AdminQtyForms :
          add_to_cart(s, pid, form)
    \/ \E s \in Shoppers, pid \in AdminCartArgs : remove_from_cart(s, pid)
    \/ \E s \in Shoppers, name \in Customers, address \in Addresses :
          checkout(s, name, address) /\ Len(orders') <= MaxOrders + 1
    \/ \E s \in Shoppers, pw \in PasswordForms : admin_login(s, pw)
    \/ \E s \in Shoppers : admin_logout(s)
    \/ \E s \in Shoppers, name \in NameForms, slug \in SlugForms,
          priceForm \in AdminAddPriceForms, stockForm \in AdminAddStockForms,
          upload \in AdminUploadForms :
          admin_add(s, name, slug, priceForm, stockForm, upload)
    \/ \E s \in Shoppers, pid \in AdminEditArgs, priceForm \in AdminEditPriceForms,
          stockForm \in AdminEditStockForms, upload \in AdminUploadForms :
          admin_edit(s, pid, priceForm, stockForm, upload)

SpecAdmin == Init /\ [][NextAdmin]_vars

-----------------------------------------------------------------------------
(* Checkout requests of several sessions handled at once.  Each request    *)
(* runs in its own database session: a row is read from the table when the *)
(* validation loop first gets it, the decrement loop gets the same object  *)
(* back from the session without reading the table again, and commit       *)
(* writes the changed stock values and the new order in one transaction.   *)

\* lines 543-551: read the cart, refuse an empty one, start the loop
ck_begin(s, name, address) ==
    /\ ck[s].pc = "idle"
    /\ IF DOMAIN cart_get(s) = {}
         THEN ck' = [ck EXCEPT ![s] = Idle("Cart is empty")]
         ELSE \E ord \in Orderings(DOMAIN cart_get(s)) :
                ck' = [ck EXCEPT ![s] = [Idle("") EXCEPT !.pc = "validate", !.ord = ord,
                                            !.i = 1, !.name = name, !.address = address]]
    /\ UNCHANGED <<products, orders, carts, admin, files, uuids, resp, stock0, image>>

\* lines 552-561: one turn of the validation loop
ck_validate(s) ==
    LET c == ck[s]
        pid == c.ord[c.i]
        qty == cart_get(s)[pid]
    IN
    /\ c.pc = "validate"
    /\ IF ~ProductExists(products, pid)
         THEN ck' = [ck EXCEPT ![s] = Idle("Product missing")]
         ELSE IF checkout_refuses(products[pid], qty)
         THEN ck' = [ck EXCEPT ![s] = Idle("Not enough stock")]
         ELSE ck' = [ck EXCEPT ![s] =
                       [c EXCEPT !.seen = CartPut(c.seen, pid, products[pid].stock),
                                 !.items = Append(c.items, ItemLine(products[pid], qty)),
                                 !.total = c.total + products[pid].price_cents * qty,
                                 !.i = c.i + 1,
                                 !.pc = IF c.i = Len(c.ord) THEN "commit" ELSE "validate"]]
    /\ UNCHANGED <<products, orders, carts, admin, files, uuids, resp, stock0, image>>

\* the stock values commit writes: of the rows the decrement loop changed
CommitStock(cart, seen, prods) ==
    [p \in DOMAIN prods |->
        IF p \in DOMAIN cart /\ Decremented(seen[p], cart[p]) # seen[p]
        THEN [prods[p] EXCEPT !.stock = Decremented(seen[p], cart[p])]
        ELSE prods[p]]

\* lines 563-573: the decrement loop, the order, commit, and the cart emptied
ck_commit(s) ==
    LET c == ck[s] IN
    /\ c.pc = "commit"
    /\ products' = CommitStock(cart_get(s), c.seen, products)
    /\ orders' = AddOrder(orders, NewOrder(c.name, c.address, c.items, c.total))
    /\ carts' = [carts EXCEPT ![s] = <<>>]
    /\ ck' = [ck EXCEPT ![s] = Idle("ok")]
    /\ UNCHANGED <<admin, files, uuids, resp, stock0, image>>

ConcQtyForms == {"1"}
ConcProductIdArgs == {1, 2}

\* the store as earlier sales left it: of every sample row, the last unit
InitConc ==
    /\ products = [p \in DOMAIN SeedProducts |-> [SeedProducts[p] EXCEPT !.stock = 1]]
    /\ orders = <<>>
    /\ carts = [s \in Sessions |-> <<>>]
    /\ admin = [s \in Sessions |-> FALSE]
    /\ files = {}
    /\ uuids = 0
    /\ ck = [s \in Sessions |-> Idle("")]
    /\ resp = NoResp
    /\ stock0 = [p \in DOMAIN products |-> products[p].stock]
    /\ image = NoImage

NextConc ==
    \/ \E s \in Sessions, pid \in ConcProductIdArgs, form \in ConcQtyForms :
          add_to_cart(s, pid, form)
    \/ \E s \in Sessions, name \in Customers, address \in Addresses : ck_begin(s, name, address)
    \/ \E s \in Sessions : ck_validate(s)
    \/ \E s \in Sessions : ck_commit(s)

SpecConc == InitConc /\ [][NextConc]_vars

-----------------------------------------------------------------------------
(* Pricing alone: the cart page of any cart, entries for products the      *)
(* table does not hold included                                            *)

PricingQtys == -1 .. 2

PricingCarts ==
    UNION {[K -> PricingQtys] : K \in SUBSET ProductIdArgs}

InitPricing ==
    /\ products = SeedProducts
    /\ orders = <<>>
    /\ \E c \in PricingCarts :
          carts = [s \in Sessions |-> IF s \in Shoppers THEN c ELSE <<>>]
    /\ admin = [s \in Sessions |-> FALSE]
    /\ files = {}
    /\ uuids = 0
    /\ ck = [s \in Sessions |-> Idle("")]
    /\ resp = NoResp
    /\ stock0 = [p \in DOMAIN SeedProducts |-> SeedProducts[p].stock]
    /\ image = NoImage

NextPricing == \E s \in Shoppers : view_cart(s)

SpecPricing == InitPricing /\ [][NextPricing]_vars

-----------------------------------------------------------------------------
(* The cart alone: the store as earlier sales left it, and the requests    *)
(* that read and write a cart                                              *)

\* the stock columns earlier sales can leave of the sample rows
LeftStocks ==
    {f \in [DOMAIN SeedProducts -> 0 .. Max(SeedProducts[1].stock, SeedProducts[2].stock)] :
        \A p \in DOMAIN SeedProducts : f[p] <= SeedProducts[p].stock}

InitCart ==
    /\ \E f \in LeftStocks :
          products = [p \in DOMAIN SeedProducts |-> [SeedProducts[p] EXCEPT !.stock = f[p]]]
    /\ orders = <<>>
    /\ carts = [s \in Sessions |-> <<>>]
    /\ admin = [s \in Sessions |-> FALSE]
    /\ files = {}
    /\ uuids = 0
    /\ ck = [s \in Sessions |-> Idle("")]
    /\ resp = NoResp
    /\ stock0 = [p \in DOMAIN products |-> products[p].stock]
    /\ image = NoImage

NextCart ==
    \/ \E s \in Shoppers, pid \in ProductIdArgs, form \in QtyForms : add_to_cart(s, pid, form)
    \/ \E s \in Shoppers, pid \in ProductIdArgs : remove_from_cart(s, pid)
    \/ \E s \in Shoppers : view_cart(s)

SpecCart == InitCart /\ [][NextCart]_vars

-----------------------------------------------------------------------------
(* Carts that outlived the product table.  The cart lives in the session   *)
(* cookie the browser keeps; the table lives in store.db, and when that    *)
(* file is made anew init_db seeds the sample rows again, so a cart can    *)
(* hold the id of a row an admin had added to the table before             *)

StaleQtyForms == {"1"}

InitStale ==
    /\ \E f \in LeftStocks :
          products = [p \in DOMAIN SeedProducts |-> [SeedProducts[p] EXCEPT !.stock = f[p]]]
    /\ orders = <<>>
    /\ \E c \in PricingCarts :
          carts = [s \in Sessions |-> IF s \in Shoppers THEN c ELSE <<>>]
    /\ admin = [s \in Sessions |-> FALSE]
    /\ files = {}
    /\ uuids = 0
    /\ ck = [s \in Sessions |-> Idle("")]
    /\ resp = NoResp
    /\ stock0 = [p \in DOMAIN products |-> products[p].stock]
    /\ image = NoImage

NextStale ==
    \/ \E s \in Shoppers, pid \in ProductIdArgs, form \in StaleQtyForms :
          add_to_cart(s, pid, form)
    \/ \E s \in Shoppers, pid \in ProductIdArgs : remove_from_cart(s, pid)
    \/ \E s \in Shoppers, name \in Customers, address \in Addresses :
          checkout(s, name, address) /\ Len(orders') <= MaxOrders

SpecStale == InitStale /\ [][NextStale]_vars

-----------------------------------------------------------------------------
(* The catalog alone: the admin's requests with every form value and upload *)

CatalogEditArgs == {1, 3}

NextCatalog ==
    \/ \E s \in Shoppers, pw \in PasswordForms : admin_login(s, pw)
    \/ \E s \in Shoppers : admin_logout(s)
    \/ \E s \in Shoppers, name \in NameForms, slug \in SlugForms,
          priceForm \in PriceForms, stockForm \in StockForms, upload \in UploadForms :
          admin_add(s, name, slug, priceForm, stockForm, upload)
    \/ \E s \in Shoppers, pid \in CatalogEditArgs, priceForm \in PriceForms,
          stockForm \in StockForms, upload \in UploadForms :
          admin_edit(s, pid, priceForm, stockForm, upload)

SpecCatalog == Init /\ [][NextCatalog]_vars

-----------------------------------------------------------------------------
(* The image normalizer alone: a picture of any of the sizes, resized and   *)
(* cropped                                                                 *)

InitNormalizer ==
    /\ products = SeedProducts
    /\ orders = <<>>
    /\ carts = [s \in Sessions |-> <<>>]
    /\ admin = [s \in Sessions |-> FALSE]
    /\ files = {}
    /\ uuids = 0
    /\ ck = [s \in Sessions |-> Idle("")]
    /\ resp = NoResp
    /\ stock0 = [p \in DOMAIN SeedProducts |-> SeedProducts[p].stock]
    /\ \E w \in ImageWidths, h \in ImageHeights :
          image = [NoImage EXCEPT !.pc = "opened", !.width = w, !.height = h]

NextNormalizer == resize_and_crop

SpecNormalizer == InitNormalizer /\ [][NextNormalizer]_vars

-----------------------------------------------------------------------------
(* The shop floor after earlier sales: the stock they left, empty carts,   *)
(* and a shopper who asks for one unit at a time                           *)

LeftQtyForms == {"1"}

NextLeft ==
    \/ \E s \in Shoppers, pid \in ProductIdArgs, form \in LeftQtyForms :
          add_to_cart(s, pid, form)
    \/ \E s \in Shoppers, pid \in ProductIdArgs : remove_from_cart(s, pid)
    \/ \E s \in Shoppers, name \in Customers, address \in Addresses :
          checkout(s, name, address) /\ Len(orders') <= MaxOrders

SpecLeft == InitCart /\ [][NextLeft]_vars

-----------------------------------------------------------------------------
(* The admin flag: two sessions, each of which may log in and out and send  *)
(* the admin's requests, and a shopper whose orders there are to list      *)

AuthEditArgs == {1}
AuthPriceForms == {"2.50"}
AuthStockForms == {NoField, "1"}
AuthNameForms == {"Tablet"}
AuthSlugForms == {"tablet"}
AuthUploadForms == {NoField}
AuthQtyForms == {"1"}

NextAuth ==
    \/ \E s \in Sessions, pw \in PasswordForms : admin_login(s, pw)
    \/ \E s \in Sessions : admin_logout(s)
    \/ \E s \in Sessions, name \in AuthNameForms, slug \in AuthSlugForms,
          priceForm \in AuthPriceForms, stockForm \in AuthStockForms,
          upload \in AuthUploadForms :
          admin_add(s, name, slug, priceForm, stockForm, upload)
    \/ \E s \in Sessions, pid \in AuthEditArgs, priceForm \in AuthPriceForms,
          stockForm \in AuthStockForms, upload \in AuthUploadForms :
          admin_edit(s, pid, priceForm, stockForm, upload)
    \/ \E s \in Sessions : orders_admin(s)
    \/ \E s \in Shoppers, pid \in AuthEditArgs, form \in AuthQtyForms :
          add_to_cart(s, pid, form)
    \/ \E s \in Shoppers, name \in Customers, address \in Addresses :
          checkout(s, name, address) /\ Len(orders') <= MaxOrders

SpecAuth == Init /\ [][NextAuth]_vars

-----------------------------------------------------------------------------
(* The claims *)

\* the sum of f[p] over the p in S
RECURSIVE SumOver(_, _)
SumOver(S, f) ==
    IF S = {} THEN 0
    ELSE LET p == CHOOSE x \in S : TRUE IN f[p] + SumOver(S \ {p}, f)

\* the stock column of a product table
StockOf(prods) == [p \in DOMAIN prods |-> prods[p].stock]

\* the step is the handling of a checkout request of session s
CheckoutStep(s) == resp'.op = "checkout" /\ resp'.sess = s

\* the step is a checkout of session s that placed an order
CheckoutOkStep(s) == CheckoutStep(s) /\ resp'.flash = "ok"

\* the cart of s holds an entry that asks for more than its product has in stock
SomeEntryOverStock(s) ==
    \E p \in DOMAIN carts[s] : ProductExists(products, p) /\ carts[s][p] > products[p].stock

\* C1: a checkout of a cart with an entry whose quantity exceeds the stock of its
\* product changes the stock of no product, the products that passed validation
\* before it included, and creates no order.
C1_AllOrNothing ==
    [][\A s \in Sessions :
          (CheckoutStep(s) /\ SomeEntryOverStock(s))
             => /\ StockOf(products') = StockOf(products)
                /\ orders' = orders]_vars

\* a checkout was refused for one entry of a cart whose other entry had stock enough
C1_Witness ==
    /\ resp.op = "checkout" /\ resp.flash = "Not enough stock"
    /\ \E s \in Sessions : \E p, q \in DOMAIN carts[s] :
          /\ resp.sess = s /\ resp.pid = q /\ p # q
          /\ carts[s][q] > products[q].stock
          /\ carts[s][p] >= 1 /\ carts[s][p] <= products[p].stock

\* C2: two checkouts that run at once for the last unit of a product never both
\* place an order: of a product that started with one unit, at most one order
\* holds a line.
C2_OneUnitOneOrder ==
    \A p \in DOMAIN products :
        stock0[p] = 1 =>
            Cardinality({i \in DOMAIN orders :
                \E k \in DOMAIN orders[i].items :
                    /\ orders[i].items[k].name = products[p].name
                    /\ orders[i].items[k].qty = 1}) <= 1

\* C3: the stock of every product is zero or more in every state.
C3_StockNonNegative == \A p \in DOMAIN products : products[p].stock >= 0

\* C4: a checkout that places an order leaves every product of the cart with its
\* stock less the cart quantity, which is zero or more, and every other product
\* with its stock as it was.
C4_StockAfterCheckout ==
    [][\A s \in Sessions :
          CheckoutOkStep(s)
             => /\ DOMAIN products' = DOMAIN products
                /\ \A p \in DOMAIN products :
                      IF p \in DOMAIN carts[s]
                      THEN /\ products'[p].stock = products[p].stock - carts[s][p]
                           /\ products'[p].stock >= 0
                      ELSE products'[p].stock = products[p].stock]_vars

\* an order for two units of the first product was placed: three in stock before, one after
C4_Witness ==
    /\ resp.op = "checkout" /\ resp.flash = "ok"
    /\ Len(orders) = 1
    /\ \E k \in DOMAIN orders[1].items :
          orders[1].items[k].name = products[1].name /\ orders[1].items[k].qty = 2
    /\ products[1].stock = 1 /\ products[2].stock = 2

\* the subtotals of the lines of an order, summed
LinesTotal(o) ==
    SumOver(DOMAIN o.items, [k \in DOMAIN o.items |-> o.items[k].price_cents * o.items[k].qty])

\* C5: a checkout that places an order empties the cart of the session and adds one
\* order, whose total_cents is what cart_total_cents gave for the cart just before
\* and is the sum of price_cents * qty over the lines of the order.
C5_OrderTotal ==
    [][\A s \in Sessions :
          CheckoutOkStep(s)
             => /\ DOMAIN carts'[s] = {}
                /\ Len(orders') = Len(orders) + 1
                /\ SubSeq(orders', 1, Len(orders)) = orders
                /\ \A ord \in Orderings(DOMAIN carts[s]) :
                      orders'[Len(orders')].total_cents
                         = cart_total_cents(carts[s], ord, products)
                /\ orders'[Len(orders')].total_cents = LinesTotal(orders'[Len(orders')])
                /\ Len(orders'[Len(orders')].items) = Cardinality(DOMAIN carts[s])]_vars

\* an order of two lines was placed, one of them for two units, and the cart is empty
C5_Witness ==
    /\ resp.op = "checkout" /\ resp.flash = "ok"
    /\ Len(orders) = 1 /\ Len(orders[1].items) = 2
    /\ \E k \in DOMAIN orders[1].items : orders[1].items[k].qty = 2
    /\ orders[1].total_cents > 0
    /\ \A s \in Shoppers : DOMAIN carts[s] = {}

\* C6: add_to_cart of an existing product with requested > stock flashes the
\* not-enough-stock message and leaves the cart as it was; with requested <=
\* stock the entry of the product becomes its quantity before (0 if it had none)
\* plus requested, and every other entry stays as it was.
C6_AddToCart ==
    [][resp'.op = "add_to_cart" =>
        \A s \in {resp'.sess}, pid \in ProductIdArgs, form \in QtyForms :
          (add_to_cart(s, pid, form) /\ ParseInt(form).ok /\ ProductExists(products, pid))
             => IF ParseInt(form).val > products[pid].stock
                THEN /\ carts' = carts
                     /\ resp'.flash = "Not enough stock for that product."
                ELSE /\ DOMAIN carts'[s] = DOMAIN carts[s] \cup {pid}
                     /\ carts'[s][pid] = CartQty(carts[s], pid) + ParseInt(form).val
                     /\ \A k \in DOMAIN carts[s] \ {pid} : carts'[s][k] = carts[s][k]
                     /\ \A t \in Sessions \ {s} : carts'[t] = carts[t]]_vars

\* a request added one unit to an entry of one unit, beside another entry, of a
\* product with one unit in stock
C6_Witness ==
    /\ resp.op = "add_to_cart" /\ resp.flash = "Added to cart"
    /\ \E s \in Sessions :
          /\ DOMAIN carts[s] = {1, 2}
          /\ carts[s][1] = MaxCartQty
          /\ carts[s][2] = 1
    /\ products[1].stock = 1
    /\ products[2].stock = 1

\* C7: every quantity a cart holds is a positive integer, in every state.
C7_CartQtyPositive ==
    \A s \in Sessions : \A p \in DOMAIN carts[s] : carts[s][p] >= 1

\* C8: add_to_cart and remove_from_cart change no stock, no price and no order; a
\* shopper request that changes a stock is a checkout that placed an order.
C8_CartRequestsFrame ==
    [][/\ resp'.op \in {"add_to_cart", "remove_from_cart"}
            => products' = products /\ orders' = orders
       /\ StockOf(products') # StockOf(products)
            => resp'.op = "checkout" /\ resp'.flash = "ok"]_vars

\* a request added two units of a product to the cart and its stock is as seeded
C8_Witness ==
    /\ resp.op = "add_to_cart" /\ resp.flash = "Added to cart"
    /\ \E s \in Sessions : 2 \in DOMAIN carts[s] /\ carts[s][2] = 2
    /\ products = SeedProducts
    /\ orders = <<>>

\* C9: the grand total of the cart page is the sum of price_cents * qty over the
\* entries whose product is in the table; entries of other products add nothing;
\* and the request changes no cart, no product and no order.
C9_PricingTotal ==
    [][\A s \in Sessions :
          (resp'.op = "view_cart" /\ resp'.sess = s)
             => /\ resp'.total =
                      SumOver(DOMAIN carts[s] \cap DOMAIN products,
                              [p \in DOMAIN carts[s] \cap DOMAIN products |->
                                  products[p].price_cents * carts[s][p]])
                /\ Len(resp'.items) = Cardinality(DOMAIN carts[s] \cap DOMAIN products)
                /\ carts' = carts /\ products' = products /\ orders' = orders]_vars

\* the page of a cart with an entry for a product the table does not hold, and two
\* entries for products it holds
C9_Witness ==
    /\ resp.op = "view_cart"
    /\ \E s \in Sessions :
          /\ resp.sess = s
          /\ DOMAIN carts[s] = {1, 2, 3}
          /\ carts[s][1] = 2 /\ carts[s][2] = 1 /\ carts[s][3] = 2
    /\ ~ProductExists(products, 3)
    /\ resp.total = 2 * products[1].price_cents + products[2].price_cents

\* C10: the order table changes only by a checkout that places an order, which
\* adds one order; no request changes or removes an order already there.
C10_OrdersAppendOnly ==
    [][/\ Len(orders') >= Len(orders)
       /\ SubSeq(orders', 1, Len(orders)) = orders
       /\ Len(orders') <= Len(orders) + 1
       /\ (Len(orders') = Len(orders) + 1) <=> (resp'.op = "checkout" /\ resp'.flash = "ok")]_vars

\* an order was placed, the admin then changed the price of its product, and a
\* second order was placed at the new price: the first order is as it was placed
C10_Witness ==
    /\ resp.op = "checkout" /\ resp.flash = "ok"
    /\ Len(orders) = 2
    /\ orders[1].items[1].name = SeedProducts[1].name
    /\ orders[2].items[1].name = SeedProducts[1].name
    /\ orders[1].items[1].price_cents = SeedProducts[1].price_cents
    /\ orders[2].items[1].price_cents # SeedProducts[1].price_cents
    /\ orders[1].total_cents = LinesTotal(orders[1])

\* C11: a checkout refused for want of stock names an entry of the cart whose
\* quantity exceeds the stock of its product, shows that product's stock as it is,
\* and leaves the cart, every product and the orders as they were.
C11_InsufficientStockReport ==
    [][\A s \in Sessions :
          (CheckoutStep(s) /\ resp'.flash = "Not enough stock")
             => /\ resp'.pid \in DOMAIN carts[s]
                /\ ProductExists(products, resp'.pid)
                /\ carts[s][resp'.pid] > products[resp'.pid].stock
                /\ resp'.stock = products[resp'.pid].stock
                /\ resp'.stock = products'[resp'.pid].stock
                /\ carts' = carts
                /\ products' = products
                /\ orders' = orders]_vars

\* a checkout of a cart holding only two units of a product with one unit left was
\* refused naming that product and the one unit, and the cart still holds the two
C11_Witness ==
    /\ resp.op = "checkout" /\ resp.flash = "Not enough stock"
    /\ resp.pid = 1 /\ resp.stock = 1
    /\ products[1].stock = 1
    /\ \E s \in Sessions : resp.sess = s /\ DOMAIN carts[s] = {1} /\ carts[s][1] = 2

\* C12: a checkout of an empty cart answers "Cart is empty", adds no order,
\* changes no product and leaves the cart empty; no other checkout gets that answer.
C12_EmptyCart ==
    [][\A s \in Sessions :
          CheckoutStep(s)
             => /\ (DOMAIN carts[s] = {}) <=> (resp'.flash = "Cart is empty")
                /\ DOMAIN carts[s] = {}
                      => /\ orders' = orders
                         /\ products' = products
                         /\ DOMAIN carts'[s] = {}]_vars

\* an empty cart was checked out after an order had emptied it: still one order
C12_Witness ==
    /\ resp.op = "checkout" /\ resp.flash = "Cart is empty"
    /\ Len(orders) = 1
    /\ \E s \in Sessions : resp.sess = s /\ DOMAIN carts[s] = {}

\* the cart of s holds an entry whose product the table does not hold
SomeEntryMissing(s) == \E p \in DOMAIN carts[s] : ~ProductExists(products, p)

C14_PriceNonNegative == \A p \in DOMAIN products : products[p].price_cents >= 0

\* C15: of every picture resized and cropped, the output is target_w by target_h;
\* the resized picture has the target's size on the axis that constrains it and
\* at least the target's size on the other; and the crop box has the target's
\* width and height and lies inside the resized picture.
C15_CoverCrop ==
    image.pc = "cropped" =>
        /\ image.out_w = target_w /\ image.out_h = target_h
        /\ IF image.width * target_h > target_w * image.height
           THEN image.new_height = target_h /\ image.new_width >= target_w
           ELSE image.new_width = target_w /\ image.new_height >= target_h
        /\ image.right - image.left = 2 * target_w
        /\ image.bottom - image.top = 2 * target_h
        /\ image.left >= 0 /\ image.top >= 0
        /\ image.right <= 2 * image.new_width
        /\ image.bottom <= 2 * image.new_height

\* the extension of an upload name: the text after its last dot, lowercased; a
\* name without a dot has none
NameExtension(filename) ==
    CASE filename = "pic.png" -> "png"
      [] filename = "pic.gif" -> "gif"
      [] OTHER -> ""

\* C16: an upload whose name's extension is not jpg, jpeg, png or webp writes no
\* file; admin_add still creates the product, with no image, and admin_edit still
\* updates the product and keeps the image it had.
C16_BadExtensionSkipsImage ==
    [][resp'.op \in {"admin_add", "admin_edit"} =>
        \A s \in {resp'.sess} :
        \A upload \in {u \in UploadForms \ {NoField} :
                           NameExtension(u) \notin {"jpg", "jpeg", "png", "webp"}} :
          /\ \A name \in NameForms, slug \in SlugForms,
                priceForm \in PriceForms, stockForm \in StockForms :
                (/\ admin_add(s, name, slug, priceForm, stockForm, upload)
                 /\ admin[s]
                 /\ resp'.flash # "500")
                   => /\ files' = files
                      /\ ~InsertFails(products, name, slug)
                            => /\ resp'.flash = "Product created"
                               /\ Len(products') = Len(products) + 1
                               /\ products'[Len(products')].image_filename = NoFile
          /\ \A pid \in CatalogEditArgs, priceForm \in PriceForms, stockForm \in StockForms :
                (/\ admin_edit(s, pid, priceForm, stockForm, upload)
                 /\ admin[s]
                 /\ resp'.flash = "Product updated")
                   => /\ files' = files
                      /\ products'[pid].image_filename = products[pid].image_filename]_vars

\* the price field is given and float() refuses it
PriceUnparseable(priceForm) ==
    priceForm \notin {NoField, ""} /\ ~ParsePriceCents(priceForm).ok

\* the stock field is given and int() refuses it
StockUnparseable(stockForm) ==
    stockForm # NoField /\ ~ParseInt(stockForm).ok

\* C17: an admin_edit of an existing product by an admin, with a price or a stock
\* that does not parse, answers "Invalid price or stock", whatever the other field
\* and the upload are; and a request so answered changes no product and no file.
C17_InvalidEditPersistsNothing ==
    [][resp'.op = "admin_edit" =>
        /\ resp'.flash = "Invalid price or stock"
              => products' = products /\ files' = files /\ uuids' = uuids
        /\ resp'.flash # "Invalid price or stock"
              => \A s \in {resp'.sess} :
                   admin[s] =>
                     \A pid \in {q \in CatalogEditArgs : ProductExists(products, q)},
                        form \in {f \in PriceForms \X StockForms :
                                    PriceUnparseable(f[1]) \/ StockUnparseable(f[2])},
                        upload \in UploadForms :
                        ~admin_edit(s, pid, form[1], form[2], upload)]_vars

\* an edit was refused as invalid after an earlier edit had set a price, a stock
\* and an image: the product still has those
C17_Witness ==
    /\ resp.op = "admin_edit" /\ resp.flash = "Invalid price or stock"
    /\ products[1].price_cents = ParsePriceCents("2.50").val
    /\ products[1].stock = ParseInt("1").val
    /\ products[1].image_filename # NoFile
    /\ products[1].image_filename \in files

\* the units of product p the order o takes
UnitsTaken(o, p) ==
    SumOver({k \in DOMAIN o.items : o.items[k].name = products[p].name},
            [k \in DOMAIN o.items |-> o.items[k].qty])

\* C18: a checkout of a cart whose quantity of a product exceeds the stock of the
\* product places no order and changes no stock, however the quantity got into
\* the cart; and the order a checkout places takes of every product no more
\* units than the product had in stock when the checkout began.
C18_NoOrderOverStock ==
    [][\A s \in Sessions :
          CheckoutStep(s)
             => /\ SomeEntryOverStock(s)
                      => /\ resp'.flash # "ok"
                         /\ Len(orders') = Len(orders)
                         /\ \A p \in DOMAIN products :
                               products'[p].stock = products[p].stock
                /\ resp'.flash = "ok"
                      => /\ Len(orders') = Len(orders) + 1
                         /\ \A p \in DOMAIN products :
                               UnitsTaken(orders'[Len(orders')], p) <= products[p].stock]_vars

\* with one unit of a product left, two requests for one unit each put two units
\* in the cart, and the checkout of that cart was refused: no order, the unit is there
C18_Witness ==
    /\ resp.op = "checkout" /\ resp.flash = "Not enough stock"
    /\ orders = <<>>
    /\ products[1].stock = 1 /\ stock0[1] = 1
    /\ \E s \in Sessions : DOMAIN carts[s] = {1, 2} /\ carts[s][1] = 2 /\ carts[s][2] = 1
    /\ products[2].stock = stock0[2]

\* C19: every key of every cart is the id of a product in the table, in every
\* state; so no checkout answers "Product missing", and the cart page has a line
\* for every entry of the cart.
C19_CartKeysExist ==
    /\ \A s \in Sessions : \A p \in DOMAIN carts[s] : ProductExists(products, p)
    /\ resp.flash # "Product missing"
    /\ resp.op = "view_cart" => Len(resp.items) = Cardinality(DOMAIN carts[resp.sess])

\* a request to add a product the table does not hold was answered 404, and the
\* cart holds what it held: entries of the two products there are
C19_Witness ==
    /\ resp.op = "add_to_cart" /\ resp.flash = "404"
    /\ ~ProductExists(products, 3)
    /\ \E s \in Sessions : resp.sess = s /\ DOMAIN carts[s] = {1, 2}

\* C20: of every product, the stock plus the units the orders placed have taken
\* is the stock at start-up, in every state.
C20_InventoryConserved ==
    \A p \in DOMAIN products :
        products[p].stock
          + SumOver(DOMAIN orders, [i \in DOMAIN orders |-> UnitsTaken(orders[i], p)])
          = stock0[p]

\* C21: admin_add and admin_edit answer a session without the admin flag with a
\* redirect and change no product and no file, and orders_admin lists the orders
\* only for a session with the flag; the flag of a session is set only by its
\* admin_login with the configured password and cleared only, and always, by its
\* admin_logout.
C21_AdminOnly ==
    [][/\ (resp'.op \in {"admin_add", "admin_edit"} /\ ~admin[resp'.sess])
            => /\ resp'.flash = "redirect"
               /\ products' = products /\ files' = files /\ orders' = orders
       /\ products' # products /\ resp'.op # "checkout"
            => resp'.op \in {"admin_add", "admin_edit"} /\ admin[resp'.sess]
       /\ resp'.op = "orders_admin"
            => IF admin[resp'.sess]
               THEN resp'.flash = "orders_admin.html" /\ Len(resp'.items) = Len(orders)
               ELSE resp'.flash = "redirect" /\ resp'.items = <<>>
       /\ \A s \in Sessions :
            /\ (admin'[s] /\ ~admin[s])
                  => /\ resp'.op = "admin_login" /\ resp'.sess = s
                     /\ \A pw \in PasswordForms : admin_login(s, pw) => pw = ADMIN_PASS
            /\ (resp'.op = "admin_login" /\ resp'.sess = s /\ ~admin[s] /\ ~admin'[s])
                  => \A pw \in PasswordForms : admin_login(s, pw) => pw # ADMIN_PASS
            /\ (resp'.op = "admin_logout" /\ resp'.sess = s) => ~admin'[s]
            /\ (admin[s] /\ ~admin'[s])
                  => resp'.op = "admin_logout" /\ resp'.sess = s]_vars

\* a session that had logged in, added a product and logged out sent admin_add
\* again and was redirected, while the other session, which never logged in, holds
\* no flag either: the table has the one product added and an order is there
C21_Witness ==
    /\ resp.op = "admin_add" /\ resp.flash = "redirect"
    /\ \A s \in Sessions : ~admin[s]
    /\ Len(products) = Len(SeedProducts) + 1
    /\ Len(orders) = 1

====
